---- MODULE Spec2Model ----
(***************************************************************************)
(* A model of src/src/main.rs: an AVL tree whose nodes are                 *)
(* Rc<RefCell<AVLNode<T>>> cells linked by child and parent references.     *)
(*                                                                         *)
(* The heap is a function from cell addresses to node records.  A cell     *)
(* keeps its address for its whole life; AVLNode::rotate exchanges the     *)
(* CONTENTS of two cells (mem::swap), so values move between addresses.    *)
(*                                                                         *)
(* RefCell's dynamic borrow rules are part of the behaviour: borrow() or   *)
(* borrow_mut() on a cell that is mutably borrowed panics, and so does     *)
(* unwrap() on None.  A panic ends the process with the heap as it was at  *)
(* the panic.                                                              *)
(*                                                                         *)
(* AVLTree::remove (lines 224-270) calls is_leaf, is_only_child and        *)
(* remove_child, which the source never defines; they are modelled from    *)
(* their call sites and from section 4.5 of the specification.  Each       *)
(* statement of remove is read for what it says: line 228 (`None =>        *)
(* false`) is the not-found result, lines 232-233 descend LEFT when the    *)
(* searched value is Greater and RIGHT when it is Less, lines 247/264      *)
(* call the free function rebalance with the parent.  The RefMut guards    *)
(* that the bindings n and r of remove would hold are not tracked (the     *)
(* helpers that would conflict with them do not exist); the borrows inside *)
(* rebalance, rotate, replacement and is_left_child are.                   *)
(***************************************************************************)
EXTENDS Integers, Sequences, FiniteSets, TLC

\* Bound of the model: values and cell addresses are 1..MaxVal.
MaxVal == 8

Values == 1..MaxVal
Cells  == 1..MaxVal

\* Option::None for a child, parent or root reference.
NIL == 0

Sides == {"Left", "Right"}

VARIABLES
    node,     \* the heap: cell -> [value, height, parent, left, right]
    root,     \* AVLTree.root: a cell, or NIL
    op,       \* the last call: [name, value, cell, side]
    ret,      \* how the last call ended: "none", "true", "false", "ok", "panic"
    retNode,  \* the cell returned by the last replacement() call, or NIL
    pre,      \* [node, root] as they were when the last call started
    log       \* what the last call did inside: see NoLog

vars == <<node, root, op, ret, retNode, pre, log>>

\* A cell that holds no node of the tree.
FreeNode == [value |-> 0, height |-> 0, parent |-> NIL, left |-> NIL, right |-> NIL]

Max(a, b) == IF a >= b THEN a ELSE b

-----------------------------------------------------------------------------
(* Node primitives                                                          *)

\* impl Not for Side
Not(side) == IF side = "Left" THEN "Right" ELSE "Left"

\* AVLNode::child
child(h, c, side) == IF side = "Left" THEN h[c].left ELSE h[c].right

\* *self.child_mut(side) = x
set_child(h, c, side, x) ==
    IF side = "Left" THEN [h EXCEPT ![c].left = x] ELSE [h EXCEPT ![c].right = x]

\* AVLNode::height: the cached height of the child on `side`, 0 if absent.
height(h, c, side) ==
    IF child(h, c, side) = NIL THEN 0 ELSE h[child(h, c, side)].height

\* height() borrows the child's cell: it panics when that cell is mutably
\* borrowed.  bs is the set of cells mutably borrowed at the call.
reads_borrowed(h, c, bs) == h[c].left \in bs \/ h[c].right \in bs

\* AVLNode::update_height
update_height(h, c) ==
    [h EXCEPT ![c].height = 1 + Max(height(h, c, "Left"), height(h, c, "Right"))]

\* `x as i8` for a usize x
as_i8(x) == LET m == x % 256 IN IF m >= 128 THEN m - 256 ELSE m

\* AVLNode::balance_factor
balance_factor(h, c) ==
    LET l == height(h, c, "Left")
        r == height(h, c, "Right")
    IN  IF l < r THEN as_i8(r - l) ELSE -as_i8(l - r)

\* AVLNode::is_left_child: "true", "false", or the panic it ends in.
is_left_child(h, c, bs) ==
    LET p == h[c].parent IN
    IF p = NIL THEN "false"
    ELSE IF p \in bs THEN "panic_borrow"
    ELSE IF h[p].left = NIL THEN "panic_unwrap"
    ELSE IF h[p].left \in bs THEN "panic_borrow"
    ELSE IF h[h[p].left].value = h[c].value THEN "true" ELSE "false"

-----------------------------------------------------------------------------
(* Replacement finder                                                       *)

\* Mutant of follow: the loop runs at most once.
follow_once(h, c, side) ==
    IF child(h, c, side) = NIL THEN c ELSE child(h, c, side)

\* The `while let` loops of replacement: from c follow `side` links to the end.
RECURSIVE follow(_, _, _)
follow(h, c, side) ==
    IF child(h, c, side) = NIL THEN c ELSE follow(h, child(h, c, side), side)

\* The cells the loop of replacement() borrows mutably, one after the other.
RECURSIVE visited(_, _, _)
visited(h, c, side) ==
    IF c = NIL THEN {} ELSE {c} \cup visited(h, child(h, c, side), side)

\* Mutant of replacement: the search stops at the child it starts from.
replacement_no_descent(h, c, bs) ==
    [node |-> IF h[c].left = NIL THEN h[c].right ELSE h[c].left, st |-> "ok"]

\* Mutant of replacement: the search follows links on the side it started on.
replacement_same_side(h, c, bs) ==
    LET side == IF h[c].left = NIL THEN "Right" ELSE "Left"
    IN  IF child(h, c, side) = NIL THEN [node |-> NIL, st |-> "ok"]
        ELSE [node |-> follow(h, child(h, c, side), side), st |-> "ok"]

\* AVLNode::replacement: [node, st]
replacement(h, c, bs) ==
    LET side  == IF h[c].left = NIL THEN "Right" ELSE "Left"
        start == child(h, c, side)
    IN  IF start = NIL THEN [node |-> NIL, st |-> "ok"]
        ELSE IF visited(h, start, Not(side)) \cap bs # {}
             THEN [node |-> NIL, st |-> "panic_borrow"]
        ELSE [node |-> follow(h, start, Not(side)), st |-> "ok"]

-----------------------------------------------------------------------------
(* Rotation engine                                                          *)

\* Lines 130-131 of rotate: h is the heap after line 129.
rotate_link(h, c, s, side, bs) ==
    IF reads_borrowed(set_child(h, c, side, s), c, bs)
    THEN [heap |-> set_child(h, c, side, s), st |-> "panic_borrow"]
    ELSE [heap |-> update_height(set_child(h, c, side, s), c), st |-> "ok"]

\* Mutant of rotate_parents: the two parent links stay as line 128 left them.
rotate_parents_kept(h, c, s, side, bs) == rotate_link(h, c, s, side, bs)

\* Line 129 of rotate, mem::swap(self.parent, subtree.parent), and what follows.
rotate_parents(h, c, s, side, bs) ==
    rotate_link([h EXCEPT ![c].parent = h[s].parent, ![s].parent = h[c].parent],
                c, s, side, bs)

\* Mutant of rotate_swap: the contents of the two cells are not exchanged.
rotate_no_swap(h, c, s, side, bs) == rotate_parents(h, c, s, side, bs)

\* Line 128 of rotate, mem::swap(self, subtree), and what follows.
rotate_swap(h, c, s, side, bs) ==
    rotate_parents([h EXCEPT ![c] = h[s], ![s] = h[c]], c, s, side, bs)

\* Line 127 of rotate and what follows: h is the heap after line 126.
rotate_relinked(h, c, s, side, bs) ==
    IF reads_borrowed(h, c, bs)
    THEN [heap |-> h, st |-> "panic_borrow"]
    ELSE rotate_swap(update_height(h, c), c, s, side, bs)

\* Lines 125-126 of rotate: s is self.child(!side), which must exist; then
\* self.child(!side) = subtree.child(side).take().
rotate_take(h, c, s, side, bs) ==
    IF s = NIL THEN [heap |-> h, st |-> "panic_unwrap"]
    ELSE IF s \in bs
         THEN [heap |-> set_child(h, c, Not(side), NIL), st |-> "panic_borrow"]
    ELSE rotate_relinked(
             set_child(set_child(h, c, Not(side), child(h, s, side)), s, side, NIL),
             c, s, side, bs)

\* AVLNode::rotate on cell c: [heap, st]
rotate(h, c, side, bs) == rotate_take(h, c, child(h, c, Not(side)), side, bs)

-----------------------------------------------------------------------------
(* Rebalancer                                                               *)

\* Upper bound on the iterations of the walk that the model follows; a walk
\* that needs more is reported as "diverge".
Fuel == MaxVal + 1

\* The rotations of lines 152-160 (heavy = "Right") and 177-185 (heavy =
\* "Left"): z is p's child on the heavy side and bz its balance factor; z is
\* rotated first when it leans the other way.  [heap, st]
rotate_second(r1, p, heavy, bs) ==
    IF r1.st = "ok" THEN rotate(r1.heap, p, Not(heavy), bs) ELSE r1

rotations(h, p, z, bz, heavy, bs) ==
    IF (heavy = "Right" /\ bz < 0) \/ (heavy = "Left" /\ bz > 0)
    THEN rotate_second(rotate(h, z, heavy, bs \cup {z}), p, heavy, bs)
    ELSE rotate(h, p, Not(heavy), bs)

\* Line 200, reached only after a rotation: `if b == 0 { break; }`.
after_rotation(r, b) ==
    [heap |-> r.heap,
     st   |-> IF r.st # "ok" THEN r.st ELSE IF b = 0 THEN "break" ELSE "continue",
     b    |-> b]

\* Lines 150-161: p leans right after its left subtree shrank.
rotate_left_case(h, p, z, b, bs) ==
    IF z = NIL THEN [heap |-> h, st |-> "panic_unwrap", b |-> b]
    ELSE IF z \in bs \/ reads_borrowed(h, z, bs)
         THEN [heap |-> h, st |-> "panic_borrow", b |-> b]
    \* line 151 assigns the walk's b
    ELSE after_rotation(rotations(h, p, z, balance_factor(h, z), "Right", bs),
                        balance_factor(h, z))

\* Lines 175-186: p leans left after its right subtree shrank.  Line 176
\* declares a new b (`let b = ...`): line 200 tests the walk's b, unchanged.
rotate_right_case(h, p, z, b, bs) ==
    IF z = NIL THEN [heap |-> h, st |-> "panic_unwrap", b |-> b]
    ELSE IF z \in bs \/ reads_borrowed(h, z, bs)
         THEN [heap |-> h, st |-> "panic_borrow", b |-> b]
    ELSE after_rotation(rotations(h, p, z, balance_factor(h, z), "Left", bs), b)

\* Lines 148-172 and 199-202: n is taken to be a left child of p.
\* [heap, st, b] with st "continue", "break" or a panic.
step_left(h, p, b, bs) ==
    IF reads_borrowed(h, p, bs) THEN [heap |-> h, st |-> "panic_borrow", b |-> b]
    ELSE IF balance_factor(h, p) > 0 THEN rotate_left_case(h, p, h[p].right, b, bs)
    ELSE IF balance_factor(h, p) = 0
         THEN [heap |-> update_height(h, p), st |-> "break", b |-> b]
         ELSE [heap |-> update_height(h, p), st |-> "continue", b |-> b]

\* Lines 173-197 and 199-202: n is taken to be a right child of p.
step_right(h, p, b, bs) ==
    IF reads_borrowed(h, p, bs) THEN [heap |-> h, st |-> "panic_borrow", b |-> b]
    ELSE IF balance_factor(h, p) < 0 THEN rotate_right_case(h, p, h[p].left, b, bs)
    ELSE IF balance_factor(h, p) = 0
         THEN [heap |-> update_height(h, p), st |-> "break", b |-> b]
         ELSE [heap |-> update_height(h, p), st |-> "continue", b |-> b]

\* What one iteration of the walk did at p, read off the heaps before (h) and
\* after (s.heap) it: the balance factor and cached height of p it met, the
\* cached height it left and whether that is the height its children give,
\* and whether p was rotated (a rotation puts another value into p's cell).
step_record(h, n, p, ilc, s) ==
    [n    |-> n,
     p    |-> p,
     left |-> ilc = "true",
     bf   |-> balance_factor(h, p),
     hb   |-> h[p].height,
     ha   |-> s.heap[p].height,
     upd  |-> s.heap[p].height = 1 + Max(height(s.heap, p, "Left"), height(s.heap, p, "Right")),
     rot  |-> s.heap[p].value # h[p].value,
     st   |-> s.st]

walk_end(h, st) == [heap |-> h, st |-> st, steps |-> <<>>]

walk_cons(rec, w) == [heap |-> w.heap, st |-> w.st, steps |-> <<rec>> \o w.steps]

\* The `while let` loop of rebalance, from the cell `next` with the local b.
\* refcell: whether RefCell's borrow rules are enforced (they are in the program).
\* [heap, st, steps] with st "ok", a panic, or "diverge", and steps the
\* records of the iterations that reached line 149 or 174.
RECURSIVE walk(_, _, _, _, _)
walk(h, next, b, fuel, refcell) ==
    IF next = NIL THEN walk_end(h, "ok")
    ELSE IF fuel = 0 THEN walk_end(h, "diverge")
    ELSE
    LET n == next               \* line 142: n = node_ref.borrow_mut()
        p == h[n].parent        \* line 143
    IN  IF p = NIL THEN walk_end(h, "ok")                    \* line 144
        ELSE IF refcell /\ p = n THEN walk_end(h, "panic_borrow")
        ELSE
        LET bs  == IF refcell THEN {n, p} ELSE {}           \* line 147: p borrowed
            ilc == is_left_child(h, n, bs)                   \* line 148
        IN  IF ilc \notin {"true", "false"} THEN walk_end(h, ilc)
            ELSE
            LET s == IF ilc = "true" THEN step_left(h, p, b, bs)
                                     ELSE step_right(h, p, b, bs)
            IN  IF s.st = "continue"
                THEN walk_cons(step_record(h, n, p, ilc, s),
                               walk(s.heap, p, s.b, fuel - 1, refcell))
                ELSE walk_cons(step_record(h, n, p, ilc, s),
                               walk_end(s.heap, IF s.st = "break" THEN "ok" ELSE s.st))

\* fn rebalance(r_node): lines 138-139, then the loop.
rebalance_with(h, start, refcell) == walk(h, start, 0, Fuel, refcell)

rebalance(h, start) == rebalance_with(h, start, TRUE)

-----------------------------------------------------------------------------
(* Tree operations                                                          *)

\* Mutant of find: a descent that ends below a node settles for that node.
RECURSIVE find_nearest(_, _, _)
find_nearest(h, c, v) ==
    IF c = NIL THEN NIL
    ELSE IF v = h[c].value THEN c
    ELSE IF v > h[c].value
         THEN (IF h[c].left = NIL THEN c ELSE find_nearest(h, h[c].left, v))
         ELSE (IF h[c].right = NIL THEN c ELSE find_nearest(h, h[c].right, v))

\* Lines 225-237: the descent of remove.  The cell holding v, or NIL.
RECURSIVE find(_, _, _)
find(h, c, v) ==
    IF c = NIL THEN NIL                                  \* None => false
    ELSE IF v = h[c].value THEN c                        \* Ordering::Equal => break
    ELSE IF v > h[c].value THEN find(h, h[c].left, v)    \* Ordering::Greater => left
    ELSE find(h, h[c].right, v)                          \* Ordering::Less => right

\* n.is_leaf(): not defined in the source.
is_leaf(h, c) == h[c].left = NIL /\ h[c].right = NIL

\* n.is_only_child(): not defined in the source.
is_only_child(h, c) ==
    LET p == h[c].parent IN
    /\ p # NIL
    /\ \/ h[p].left = c /\ h[p].right = NIL
       \/ h[p].right = c /\ h[p].left = NIL

\* p.remove_child(x): not defined in the source.  The slot of p that holds x
\* receives x's single child (or nothing), whose parent link becomes p; the
\* cell of x leaves the tree.  With no parent there is no slot to change.
remove_child(h, p, x) ==
    LET c == IF h[x].left # NIL THEN h[x].left ELSE h[x].right
        side == IF p # NIL /\ h[p].left = x THEN "Left" ELSE "Right"
    IN  IF p = NIL \/ (h[p].left # x /\ h[p].right # x) THEN h
        ELSE LET h1 == set_child(h, p, side, c)
                 h2 == IF c = NIL THEN h1 ELSE [h1 EXCEPT ![c].parent = p]
             IN  [h2 EXCEPT ![x] = FreeNode]

\* The record of a call that detached nothing.
NoLog ==
    [target   |-> NIL,     \* the cell the descent of remove ended at
     detached |-> NIL,     \* the cell taken out of the tree
     parent   |-> NIL,     \* its parent when it was taken out
     parentBf |-> 0,       \* balance_factor of that parent right after
     parentVal |-> 0,      \* the value that parent held right after
     invoked  |-> FALSE,   \* whether rebalance was called
     start    |-> NIL,     \* the cell rebalance was called with
     steps    |-> <<>>,    \* the iterations of the walk (step_record)
     st       |-> "none"]  \* how the walk ended

\* The record of detach: h1 is the heap after remove_child, w the walk's result
\* (NoLog's st when rebalance was not called).
detach_log(h1, target, x, p, woc, w) ==
    [target    |-> target,
     detached  |-> x,
     parent    |-> p,
     parentBf  |-> IF p = NIL THEN 0 ELSE balance_factor(h1, p),
     parentVal |-> IF p = NIL THEN 0 ELSE h1[p].value,
     invoked   |-> woc,
     start     |-> IF woc THEN p ELSE NIL,
     steps     |-> w.steps,
     st        |-> w.st]

detach_result(h1, target, x, p, woc, w) ==
    [heap |-> w.heap,
     ret  |-> IF w.st \in {"ok", "none"} THEN "true" ELSE "panic",
     log  |-> detach_log(h1, target, x, p, woc, w)]

\* Lines 245-248 and 262-265, h1 being the heap after remove_child:
\* `if was_only_child { p.update_height(); p.rebalance(); }`.
detach_finish(h1, target, x, p, woc, refcell) ==
    detach_result(h1, target, x, p, woc,
                  IF woc THEN rebalance_with(update_height(h1, p), p, refcell)
                         ELSE walk_end(h1, "none"))

\* Lines 242-248 and 259-265: detach x from its parent, and rebalance from
\* the parent when x was its only child.  [heap, ret, log]
detach_with(h, target, x, refcell) ==
    detach_finish(remove_child(h, h[x].parent, x), target, x, h[x].parent,
                  is_only_child(h, x), refcell)

detach(h, x) == detach_with(h, x, x, TRUE)

\* Lines 240-268 of remove, n being the cell the descent ended at.
remove_at(h, n, refcell) ==
    IF is_leaf(h, n) THEN detach_with(h, n, n, refcell)
    ELSE detach_with([h EXCEPT ![n].value = h[replacement(h, n, {}).node].value],
                     n, replacement(h, n, {}).node, refcell)   \* lines 257-258

\* AVLTree::remove: [heap, ret, log]
remove(h, rt, v) ==
    IF find(h, rt, v) = NIL THEN [heap |-> h, ret |-> "false", log |-> NoLog]
    ELSE remove_at(h, find(h, rt, v), TRUE)

-----------------------------------------------------------------------------
(* Well-formed trees: the trees a caller hands to the operations            *)

\* All AVL trees holding exactly the values of S, the node with value v in
\* cell v: [root, ht, nd] with nd the node records, links and heights set as
\* in section 3 of the specification.
RECURSIVE Shapes(_)
Shapes(S) ==
    IF S = {} THEN {[root |-> NIL, ht |-> 0, nd |-> <<>>]}
    ELSE UNION {
        { [root |-> r,
           ht   |-> 1 + Max(L.ht, R.ht),
           nd   |-> [c \in S |->
                       IF c = r THEN [value |-> r, height |-> 1 + Max(L.ht, R.ht),
                                      parent |-> NIL, left |-> L.root, right |-> R.root]
                       ELSE IF c < r
                            THEN (IF c = L.root THEN [L.nd[c] EXCEPT !.parent = r] ELSE L.nd[c])
                            ELSE (IF c = R.root THEN [R.nd[c] EXCEPT !.parent = r] ELSE R.nd[c])]]
          : <<L, R>> \in { lr \in Shapes({x \in S : x < r}) \X Shapes({x \in S : x > r}) :
                            lr[1].ht - lr[2].ht \in {-1, 0, 1} } }
        : r \in S }

NoOp == [name |-> "none", value |-> 0, cell |-> NIL, side |-> "Left"]

Init ==
    \E S \in SUBSET Values : \E t \in Shapes(S) :
        /\ node = [c \in Cells |-> IF c \in S THEN t.nd[c] ELSE FreeNode]
        /\ root = t.root
        /\ op = NoOp
        /\ ret = "none"
        /\ retNode = NIL
        /\ log = NoLog
        /\ pre = [node |-> [c \in Cells |-> IF c \in S THEN t.nd[c] ELSE FreeNode],
                  root |-> t.root]

\* A call of tree.remove(v).  After a panic the process is gone.
Remove(v) ==
    /\ ret # "panic"
    /\ LET res == remove(node, root, v) IN
        /\ node' = res.heap
        /\ ret' = res.ret
        /\ log' = res.log
    /\ op' = [name |-> "remove", value |-> v, cell |-> NIL, side |-> "Left"]
    /\ pre' = [node |-> node, root |-> root]
    /\ UNCHANGED <<root, retNode>>

Next == \E v \in Values : Remove(v)

Spec == Init /\ [][Next]_vars

-----------------------------------------------------------------------------
(* Direct calls of the node methods, as tests::test_replacement_node makes  *)
(* them on a tree it has just built: root.borrow_mut().replacement() and    *)
(* root.borrow_mut().rotate(side).  The receiver's cell is mutably borrowed *)
(* for the call.                                                            *)

\* The cells of the tree below (and including) c.
RECURSIVE Sub(_, _)
Sub(h, c) == IF c = NIL THEN {} ELSE {c} \cup Sub(h, h[c].left) \cup Sub(h, h[c].right)

CallReplacement(c) ==
    /\ op.name = "none"
    /\ c \in Sub(node, root)
    /\ LET res == replacement(node, c, {c}) IN
        /\ retNode' = res.node
        /\ ret' = IF res.st = "ok" THEN "ok" ELSE "panic"
    /\ op' = [name |-> "replacement", value |-> 0, cell |-> c, side |-> "Left"]
    /\ pre' = [node |-> node, root |-> root]
    /\ UNCHANGED <<node, root, log>>

CallRotate(c, side) ==
    /\ op.name = "none"
    /\ c \in Sub(node, root)
    /\ LET res == rotate(node, c, side, {c}) IN
        /\ node' = res.heap
        /\ ret' = IF res.st = "ok" THEN "ok" ELSE "panic"
    /\ op' = [name |-> "rotate", value |-> 0, cell |-> c, side |-> side]
    /\ pre' = [node |-> node, root |-> root]
    /\ UNCHANGED <<root, retNode, log>>

\* c.borrow().is_left_child() (held = {}) or c.borrow_mut().is_left_child()
\* (held = {c}, as at lines 142 and 148); op.value tells which.
CallIsLeftChild(c, held) ==
    /\ op.name = "none"
    /\ c \in Sub(node, root)
    /\ held \in {{}, {c}}
    /\ ret' = IF is_left_child(node, c, held) \in {"true", "false"}
              THEN is_left_child(node, c, held) ELSE "panic"
    /\ op' = [name |-> "is_left_child", value |-> Cardinality(held), cell |-> c,
              side |-> "Left"]
    /\ pre' = [node |-> node, root |-> root]
    /\ UNCHANGED <<node, root, retNode, log>>

UnitNext ==
    \/ \E c \in Cells : CallReplacement(c)
    \/ \E c \in Cells : \E side \in Sides : CallRotate(c, side)
    \/ \E c \in Cells : \E held \in SUBSET {c} : CallIsLeftChild(c, held)

UnitSpec == Init /\ [][UnitNext]_vars

-----------------------------------------------------------------------------
(* The walk as an algorithm.  In the program every walk that starts below   *)
(* the root ends at line 148 with a BorrowError, before it has looked at a  *)
(* balance factor.  What lines 148-202 decide is studied here with the      *)
(* borrow flags of RefCell left out: lines 240-266 of remove applied to a   *)
(* cell x of a well-formed tree, one call per behaviour.                    *)

RemoveAt(x) ==
    /\ op.name = "none"
    /\ x \in Sub(node, root)
    /\ LET res == remove_at(node, x, FALSE) IN
        /\ node' = res.heap
        /\ ret' = res.ret
        /\ log' = res.log
    /\ op' = [name |-> "remove_at", value |-> node[x].value, cell |-> x, side |-> "Left"]
    /\ pre' = [node |-> node, root |-> root]
    /\ UNCHANGED <<root, retNode>>

WalkNext == \E x \in Cells : RemoveAt(x)

WalkSpec == Init /\ [][WalkNext]_vars

-----------------------------------------------------------------------------
(* What the claims observe                                                  *)

\* The values of the subtree at c, left to right.
RECURSIVE InOrder(_, _)
InOrder(h, c) ==
    IF c = NIL THEN <<>>
    ELSE InOrder(h, h[c].left) \o <<h[c].value>> \o InOrder(h, h[c].right)

\* The values held by the subtree at c.
RECURSIVE ValuesOf(_, _)
ValuesOf(h, c) ==
    IF c = NIL THEN {}
    ELSE {h[c].value} \cup ValuesOf(h, h[c].left) \cup ValuesOf(h, h[c].right)

\* The true height of the subtree at c (0 for an absent subtree).
RECURSIVE TrueHeight(_, _)
TrueHeight(h, c) ==
    IF c = NIL THEN 0 ELSE 1 + Max(TrueHeight(h, h[c].left), TrueHeight(h, h[c].right))

Present == ValuesOf(node, root)
PresentBefore == ValuesOf(pre.node, pre.root)

\* The last call returned to its caller (it did not panic).
Returned == ret \in {"true", "false", "ok"}

StrictlyAscending(s) == \A i \in 1..(Len(s) - 1) : s[i] < s[i + 1]

BSTOrder(h, rt) ==
    \A c \in Sub(h, rt) :
        /\ \A x \in ValuesOf(h, h[c].left)  : x < h[c].value
        /\ \A x \in ValuesOf(h, h[c].right) : x > h[c].value

Balanced(h, rt) ==
    \A c \in Sub(h, rt) :
        TrueHeight(h, h[c].left) - TrueHeight(h, h[c].right) \in {-1, 0, 1}

HeightsConsistent(h, rt) ==
    \A c \in Sub(h, rt) :
        h[c].height = 1 + Max(height(h, c, "Left"), height(h, c, "Right"))

ParentsConsistent(h, rt) ==
    /\ rt # NIL => h[rt].parent = NIL
    /\ \A c \in Sub(h, rt) :
        /\ h[c].left  # NIL => h[h[c].left].parent = c
        /\ h[c].right # NIL => h[h[c].right].parent = c
        /\ h[c].parent # NIL =>
              /\ h[c].parent \in Sub(h, rt)
              /\ (h[h[c].parent].left = c) # (h[h[c].parent].right = c)

-----------------------------------------------------------------------------
(* Claims                                                                   *)

\* C1: after every remove that returns, every node of the tree has true
\* subtree heights that differ by at most one.
C1_BalancedAfterRemove ==
    (op.name = "remove" /\ Returned) => Balanced(node, root)

\* C2: after every call that returns, every node's left subtree holds only
\* smaller values and its right subtree only larger ones, and the in-order
\* traversal is strictly ascending.
C2_BSTOrderKept ==
    Returned => /\ BSTOrder(node, root)
                /\ StrictlyAscending(InOrder(node, root))

\* C2 witness: a remove returned true after changing the tree.
C2_Witness ==
    /\ op.name = "remove"
    /\ ret = "true"
    /\ node # pre.node
    /\ Cardinality(Present) >= 3

\* C3: remove(v) of a present value v returns true and leaves exactly the
\* previous values without v.
C3_RemovePresent ==
    (op.name = "remove" /\ op.value \in PresentBefore)
        => /\ ret = "true"
           /\ Present = PresentBefore \ {op.value}

C5_HeightsConsistent ==
    Returned => HeightsConsistent(node, root)

C7_NoAbort ==
    op.name = "remove" => ret # "panic"

SetMax(S) == CHOOSE x \in S : \A y \in S : y <= x
SetMin(S) == CHOOSE x \in S : \A y \in S : x <= y

\* C8: for a node with a child, replacement() returns the end of the right
\* spine of the left child when there is a left child, else the end of the
\* left spine of the right child; in a search tree that node holds the
\* in-order predecessor, respectively successor; the tree is not modified.
C8_Replacement ==
    (op.name = "replacement" /\ ~is_leaf(pre.node, op.cell)) =>
        LET h == pre.node
            c == op.cell
            l == h[c].left
            r == h[c].right
        IN  /\ ret = "ok"
            /\ retNode # NIL
            /\ node = h /\ root = pre.root
            /\ IF l # NIL
               THEN /\ retNode \in Sub(h, l)
                    /\ h[retNode].right = NIL
                    /\ h[l].right = NIL => retNode = l
                    /\ h[retNode].value = SetMax(ValuesOf(h, l))
                    /\ h[retNode].value =
                          SetMax({x \in ValuesOf(h, pre.root) : x < h[c].value})
               ELSE /\ retNode \in Sub(h, r)
                    /\ h[retNode].left = NIL
                    /\ h[r].left = NIL => retNode = r
                    /\ h[retNode].value = SetMin(ValuesOf(h, r))
                    /\ h[retNode].value =
                          SetMin({x \in ValuesOf(h, pre.root) : x > h[c].value})

\* C8 witness: replacement() of a node with two children whose left child has
\* a right child, so the search went down at least one right link.
C8_Witness ==
    /\ op.name = "replacement"
    /\ ret = "ok"
    /\ pre.node[op.cell].left # NIL
    /\ pre.node[op.cell].right # NIL
    /\ pre.node[pre.node[op.cell].left].right # NIL
    /\ retNode # pre.node[op.cell].left

\* C9: rotate(N, side) with C = N's child opposite to side: the local root
\* holds C's value and its side child holds N's value; C's former side
\* subtree is the opposite-side subtree of the node holding N's value; N's
\* former side subtree and C's former opposite-side subtree hang under N's
\* and C's values; the values of the subtree, left to right, are unchanged.
C9_Rotate ==
    (op.name = "rotate" /\ child(pre.node, op.cell, Not(op.side)) # NIL) =>
        LET h    == pre.node
            n    == op.cell
            side == op.side
            c    == child(h, n, Not(side))
            d    == child(node, n, side)      \* the demoted node, after
            kept == Sub(h, child(h, c, side)) \cup Sub(h, child(h, n, side))
                        \cup Sub(h, child(h, c, Not(side)))
        IN  /\ ret = "ok"
            /\ node[n].value = h[c].value
            /\ d # NIL
            /\ node[d].value = h[n].value
            /\ child(node, d, Not(side)) = child(h, c, side)
            /\ child(node, d, side) = child(h, n, side)
            /\ child(node, n, Not(side)) = child(h, c, Not(side))
            /\ \A x \in kept : /\ node[x].value = h[x].value
                               /\ node[x].left = h[x].left
                               /\ node[x].right = h[x].right
            /\ InOrder(node, n) = InOrder(h, n)
            /\ InOrder(node, root) = InOrder(h, pre.root)

\* C9 witness: a rotation returned at a node whose three subtrees involved
\* (N's side subtree, C's two subtrees) are all non-empty.
C9_Witness ==
    /\ op.name = "rotate"
    /\ ret = "ok"
    /\ child(pre.node, op.cell, op.side) # NIL
    /\ child(pre.node, child(pre.node, op.cell, Not(op.side)), "Left") # NIL
    /\ child(pre.node, child(pre.node, op.cell, Not(op.side)), "Right") # NIL

\* C10: the tree offers insert: whenever a value is absent, a call is
\* possible after which the present values are the previous ones plus it.
C10_InsertOffered ==
    \A v \in Values :
        (ret # "panic" /\ v \notin Present) =>
            ENABLED (Next /\ ValuesOf(node', root') = Present \cup {v})


\* The iterations of the last walk that ran to their end (no panic inside).
Steps == { i \in 1..Len(log.steps) : log.steps[i].st \in {"break", "continue"} }

C12_StartNodeExamined ==
    log.parent # NIL =>
        /\ (log.steps # <<>> => log.steps[1].p = log.start)
        /\ (log.parentBf \in {-2, 2} => node[log.parent].value # log.parentVal)



C14_WalkAlwaysInvoked ==
    (op.name = "remove" /\ ret = "true" /\ log.parent # NIL) =>
        (log.invoked /\ log.start = log.parent)



\* The cell of the subtree of c in h that holds the subtree's largest value.
Largest(h, c) ==
    CHOOSE x \in Sub(h, c) : \A y \in Sub(h, c) : h[y].value <= h[x].value

\* C15: when remove(v) finds v in a node with two children, the only change
\* to that node is its value, overwritten by the replacement's value: its
\* position, parent link and child links are untouched; the node physically
\* detached is the replacement node (the predecessor), and rebalancing is
\* started at the replacement's former parent.
C15_TwoChildRemove ==
    (/\ op.name = "remove"
     /\ log.target # NIL
     /\ pre.node[log.target].left # NIL
     /\ pre.node[log.target].right # NIL) =>
        /\ node[log.target].value
             = pre.node[Largest(pre.node, pre.node[log.target].left)].value
        /\ node[log.target].parent = pre.node[log.target].parent
        /\ node[log.target].left = pre.node[log.target].left
        /\ node[log.target].right = pre.node[log.target].right
        /\ log.detached = Largest(pre.node, pre.node[log.target].left)
        /\ log.invoked
        /\ log.start = pre.node[log.detached].parent



\* C16: the node returned by replacement() has at most one child: found
\* through the left subtree it has no right child, found through the right
\* subtree it has no left child.
C16_ReplacementOneChild ==
    (op.name = "replacement" /\ retNode # NIL) =>
        /\ pre.node[op.cell].left # NIL => node[retNode].right = NIL
        /\ pre.node[op.cell].left = NIL => node[retNode].left = NIL
        /\ node[retNode].left = NIL \/ node[retNode].right = NIL

\* C16 witness: replacement() went down a right link of the left subtree and
\* returned a node that has a left child.
C16_Witness ==
    /\ op.name = "replacement"
    /\ retNode # NIL
    /\ pre.node[op.cell].left # NIL
    /\ retNode # pre.node[op.cell].left
    /\ node[retNode].left # NIL
    /\ node[retNode].right = NIL



Mirror(h) == [c \in Cells |-> [h[c] EXCEPT !.left = h[c].right, !.right = h[c].left]]

\* The mirror image of the record of an iteration of the walk.
MirrorStep(s) == [s EXCEPT !.left = ~s.left, !.bf = 0 - s.bf]

C19_EmptyAfterLastRemove ==
    (op.name = "remove" /\ ret = "true" /\ Cardinality(PresentBefore) = 1) =>
        /\ root = NIL
        /\ \A v \in Values : remove(node, root, v).ret = "false"



\* C20: is_left_child(n) is true exactly when n has a parent and the parent's
\* left child link refers to n, by identity; it is false in every other case,
\* also when n is a right child whose parent has no left child.
C20_IsLeftChild ==
    op.name = "is_left_child" =>
        ret = IF /\ pre.node[op.cell].parent # NIL
                 /\ pre.node[pre.node[op.cell].parent].left = op.cell
              THEN "true" ELSE "false"


=============================================================================
